---- MODULE Spec2Model ----
(***************************************************************************)
(* Model of backend/main.go (token-gated, refresh-capable variant):        *)
(* the token store and its mutex, ensureValidToken / refreshAccessToken /  *)
(* saveToken, the OAuth callback, the bulk fetcher and the cache-or-fetch  *)
(* policy of /api/activities.  Every request is served by its own          *)
(* goroutine; the goroutines are the processes of the model.               *)
(***************************************************************************)
EXTENDS Integers, Sequences, FiniteSets, TLC

(* ---------------------------------------------------------------- bounds *)
\* goroutines serving requests concurrently
NumProcs == 2
\* how many times the clock advances
MaxTicks == 1
\* seconds per clock advance
TickStep == 30
\* page size of the listing request; the source asks for 200 per page
\* (main.go:712), the model scales it down
perPage == 2
\* how many activities a cache file holds at most
MaxCacheLen == 2

(* ------------------------------------------------------------- constants *)
\* tokenTTLMargin = 60 * time.Second
tokenTTLMargin == 60

Procs == 1..NumProcs

\* what the upstream may put into a token response
AccessTokenValues == {"", "a1"}
RefreshTokenValues == {"", "r1"}
Lifetimes == {30, 60}

\* the activities an upstream account may hold, newest first
ActPool == <<"x1", "x2", "x3", "x4", "x5">>

\* the accounts considered: an empty one, one that fills its last page exactly,
\* and one whose last page is short
Accounts == {SubSeq(ActPool, 1, n) : n \in {0, perPage, perPage + 1}}

\* zero value of TokenData
NoToken == [access_token |-> "", refresh_token |-> "", expires_at |-> 0]

\* the 200 responses of POST /oauth/token at time t, after JSON decoding
TokenResponses(t) ==
    [access_token : AccessTokenValues,
     refresh_token : RefreshTokenValues,
     expires_at : {t + l : l \in Lifetimes}]

\* the ways an upstream call fails: transport error, non-200 status, bad body
FailKinds == {"network", "status", "decode"}

VARIABLES
    now,              \* time.Now(), in seconds
    currentTokens,    \* in-memory token record
    tokenMutex,       \* 0 when free, else the goroutine holding it
    tokenFile,        \* data/strava_token.json
    dataFile,         \* data/strava_activities.json
    stravaActivities, \* the upstream account's activities
    pc,               \* where each goroutine is
    req,              \* the request a goroutine serves
    loc,              \* the goroutine's local variables
    sent,             \* upstream requests sent while serving the request
    resp              \* c.JSON / c.Redirect calls made on the response

vars == <<now, currentTokens, tokenMutex, tokenFile, dataFile, stravaActivities,
          pc, req, loc, sent, resp>>

\* the locals at their zero values: ensureValidToken's results (accessToken,
\* err, "" for nil), saveToken's parameter t, the fetch loop's page and
\* allActivities, and handleStatus's fileStatus, isTokenValid and expiryInfo
\* (the minute of the expiry, -1 for "N/A")
ZeroLocals ==
    [accessToken |-> "", err |-> "", t |-> NoToken, page |-> 0, allActivities |-> <<>>,
     fileStatus |-> "", isTokenValid |-> FALSE, expiryInfo |-> -1]

(* ------------------------------------------------------------ the files *)
NoFile == [exists |-> FALSE, content |-> <<>>]
FileOf(c) == [exists |-> TRUE, content |-> c]

\* json encoding of the activity slice, as a token sequence; a nil slice
\* (nothing was ever appended) encodes as null
Encode(acts) ==
    IF acts = <<>> THEN <<"null">> ELSE <<"[">> \o acts \o <<"]">>

Brackets == {"[", "]", "null"}

\* json.Unmarshal into a slice succeeds on null and on a closed array
Parseable(c) ==
    \/ c = <<"null">>
    \/ /\ Len(c) >= 2
       /\ c[1] = "["
       /\ c[Len(c)] = "]"
       /\ \A i \in 2..(Len(c) - 1) : c[i] \notin Brackets

Parse(c) == IF c = <<"null">> THEN <<>> ELSE SubSeq(c, 2, Len(c) - 1)

\* a write of w at offset 0 of a file holding old (no truncation)
Overlay(old, w) ==
    IF Len(old) > Len(w) THEN w \o SubSeq(old, Len(w) + 1, Len(old)) ELSE w

\* a cache file left behind by a crash in the middle of a write
CrashedContent == <<"[", "x1">>

(* ------------------------------------------------------------ responses *)
Reply(status, kind, acts) == [status |-> status, kind |-> kind, acts |-> acts]
ErrorReply(status, kind) == Reply(status, kind, <<>>)

\* gin keeps the first status written; later c.JSON calls only add to the body
ClientStatus(p) == IF resp[p] = <<>> THEN 0 ELSE resp[p][1].status

(* ------------------------------------------------------ token lifecycle *)
\* currentTokens.AccessToken == ""
NeverAuthenticatedMut(tok) == tok.access_token = "" /\ tok.refresh_token = ""
NeverAuthenticated(tok) == tok.access_token = ""

\* time.Now().Add(tokenTTLMargin).After(expiryTime)
NeedsRefreshMut(t, tok) == t > tok.expires_at
NeedsRefresh(t, tok) == t + tokenTTLMargin > tok.expires_at

\* refreshAccessToken, lines 265-270
CommitRefresh(tok, r) ==
    [access_token |-> r.access_token,
     refresh_token |-> IF r.refresh_token # "" THEN r.refresh_token
                       ELSE tok.refresh_token,
     expires_at |-> r.expires_at]

\* TokenData(tokenResponse)
TokenDataOf(r) ==
    [access_token |-> r.access_token,
     refresh_token |-> r.refresh_token,
     expires_at |-> r.expires_at]

NoRequest == [kind |-> "none", refresh |-> FALSE]

Init ==
    /\ now = 0
    /\ currentTokens = NoToken
    /\ tokenMutex = 0
    /\ tokenFile = [exists |-> FALSE, data |-> NoToken]
    /\ dataFile \in {NoFile, FileOf(CrashedContent)}
    /\ stravaActivities \in Accounts
    /\ pc = [p \in Procs |-> "done"]
    /\ req = [p \in Procs |-> NoRequest]
    /\ loc = [p \in Procs |-> ZeroLocals]
    /\ sent = [p \in Procs |-> <<>>]
    /\ resp = [p \in Procs |-> <<>>]

\* the clock advances
Tick ==
    /\ now < MaxTicks * TickStep
    /\ now' = now + TickStep
    /\ UNCHANGED <<currentTokens, tokenMutex, tokenFile, dataFile, stravaActivities,
                   pc, req, loc, sent, resp>>

\* the handler writes a response
Write(p, r) == resp' = [resp EXCEPT ![p] = Append(@, r)]

\* the handler returns: the request, the goroutine's locals and its
\* connections are gone, the response stays with the client
Return(p) ==
    /\ pc' = [pc EXCEPT ![p] = "done"]
    /\ req' = [req EXCEPT ![p] = NoRequest]
    /\ loc' = [loc EXCEPT ![p] = ZeroLocals]
    /\ sent' = [sent EXCEPT ![p] = <<>>]

\* the handler goes on to label
Goto(p, label) ==
    /\ pc' = [pc EXCEPT ![p] = label]
    /\ UNCHANGED req

\* an upstream request leaves the process
Send(p, kind, n) == sent' = [sent EXCEPT ![p] = Append(@, [kind |-> kind, page |-> n])]

\* ensureValidToken: Lock, the two checks, and the Unlock that follows them
EnsureValidToken(p) ==
    /\ pc[p] = "evt_lock"
    /\ tokenMutex = 0
    /\ IF NeverAuthenticated(currentTokens)
       THEN /\ loc' = [loc EXCEPT ![p].err = "unauthenticated"]
            /\ Goto(p, "ga_token")
       ELSE IF NeedsRefresh(now, currentTokens)
       THEN /\ Goto(p, "rat_lock")
            /\ UNCHANGED loc
       ELSE /\ loc' = [loc EXCEPT ![p].accessToken = currentTokens.access_token]
            /\ Goto(p, "ga_token")
    /\ UNCHANGED <<now, currentTokens, tokenMutex, tokenFile, dataFile, stravaActivities,
                   sent, resp>>

\* refreshAccessToken: Lock, the refresh-token check, and the POST being sent;
\* the mutex stays held while the request is in flight
RefreshAccessToken(p) ==
    /\ pc[p] = "rat_lock"
    /\ tokenMutex = 0
    /\ IF currentTokens.refresh_token = ""
       THEN /\ loc' = [loc EXCEPT ![p].err = "no_refresh_token"]
            /\ Goto(p, "evt_relock")
            /\ UNCHANGED <<tokenMutex, sent>>
       ELSE /\ tokenMutex' = p
            /\ Send(p, "refresh", 0)
            /\ Goto(p, "rat_wait")
            /\ UNCHANGED loc
    /\ UNCHANGED <<now, currentTokens, tokenFile, dataFile, stravaActivities, resp>>

\* refreshAccessToken: the exchange failed; return the error, deferred Unlock
RefreshFailedMut(p, kind) ==
    /\ pc[p] = "rat_wait"
    /\ loc' = [loc EXCEPT ![p].err = kind]
    /\ currentTokens' = [currentTokens EXCEPT !.access_token = ""]
    /\ tokenMutex' = 0
    /\ Goto(p, "evt_relock")
    /\ UNCHANGED <<now, tokenFile, dataFile, stravaActivities, sent, resp>>
RefreshFailed(p, kind) ==
    /\ pc[p] = "rat_wait"
    /\ loc' = [loc EXCEPT ![p].err = kind]
    /\ tokenMutex' = 0
    /\ Goto(p, "evt_relock")
    /\ UNCHANGED <<now, currentTokens, tokenFile, dataFile, stravaActivities, sent, resp>>

\* refreshAccessToken: the upstream answered 200 with r; update the record in
\* memory and call saveToken(currentTokens), the mutex still held
RefreshAccepted(p, r) ==
    /\ pc[p] = "rat_wait"
    /\ currentTokens' = CommitRefresh(currentTokens, r)
    /\ loc' = [loc EXCEPT ![p].t = CommitRefresh(currentTokens, r)]
    /\ Goto(p, "st_lock")
    /\ UNCHANGED <<now, tokenMutex, tokenFile, dataFile, stravaActivities, sent, resp>>

\* saveToken(t): Lock, currentTokens = t, MkdirAll/MarshalIndent/WriteFile
\* (ok says whether the file system accepted the write), deferred Unlock, and
\* the caller's use of the result.  The callback answers the client.  In
\* refreshAccessToken the deferred Unlock would then run on a mutex that
\* saveToken has already released, which is a fatal runtime error.
SaveToken(p, ok) ==
    /\ pc[p] = "st_lock"
    /\ tokenMutex = 0
    /\ currentTokens' = loc[p].t
    /\ tokenFile' = IF ok THEN [exists |-> TRUE, data |-> loc[p].t] ELSE tokenFile
    /\ IF req[p].kind = "callback"
       THEN /\ Write(p, IF ok THEN ErrorReply(307, "auth_success")
                        ELSE ErrorReply(500, "save_token_failed"))
            /\ Return(p)
       ELSE /\ Goto(p, "fatal")
            /\ UNCHANGED <<loc, sent, resp>>
    /\ UNCHANGED <<now, tokenMutex, dataFile, stravaActivities>>

\* ensureValidToken returning refreshAccessToken's error: the deferred Lock
\* runs, then the deferred Unlock
EnsureReturnError(p) ==
    /\ pc[p] = "evt_relock"
    /\ tokenMutex = 0
    /\ Goto(p, "ga_token")
    /\ UNCHANGED <<now, currentTokens, tokenMutex, tokenFile, dataFile, stravaActivities,
                   loc, sent, resp>>

(* --------------------------------------------------------- OAuth callback *)
\* handleStravaCallback up to the POST of the authorization code
HandleStravaCallback(p, code, denied) ==
    /\ pc[p] = "done"
    /\ IF code = ""
       THEN /\ resp' = [resp EXCEPT ![p] =
                   <<IF denied THEN ErrorReply(307, "auth_denied")
                     ELSE ErrorReply(400, "code_not_found")>>]
            /\ Return(p)
       ELSE /\ req' = [req EXCEPT ![p] = [kind |-> "callback", refresh |-> FALSE]]
            /\ resp' = [resp EXCEPT ![p] = <<>>]
            /\ sent' = [sent EXCEPT ![p] = <<[kind |-> "code", page |-> 0]>>]
            /\ pc' = [pc EXCEPT ![p] = "cb_wait"]
            /\ UNCHANGED loc
    /\ UNCHANGED <<now, currentTokens, tokenMutex, tokenFile, dataFile, stravaActivities>>

\* the code exchange failed: 500
CallbackFailed(p, kind) ==
    /\ pc[p] = "cb_wait"
    /\ Write(p, ErrorReply(500, "token_exchange_failed"))
    /\ Return(p)
    /\ UNCHANGED <<now, currentTokens, tokenMutex, tokenFile, dataFile, stravaActivities>>

\* the upstream answered 200 with r: saveToken(TokenData(tokenResponse))
CallbackAccepted(p, r) ==
    /\ pc[p] = "cb_wait"
    /\ loc' = [loc EXCEPT ![p].t = TokenDataOf(r)]
    /\ Goto(p, "st_lock")
    /\ UNCHANGED <<now, currentTokens, tokenMutex, tokenFile, dataFile, stravaActivities,
                   sent, resp>>

(* ------------------------------------------------------------ /api/status *)
\* currentTokens.AccessToken != "" &&
\* time.Now().Before(time.Unix(currentTokens.ExpiresAt, 0).Add(-tokenTTLMargin))
IsTokenValid(t, tok) == tok.access_token # "" /\ t < tok.expires_at - tokenTTLMargin

\* time.Unix(ExpiresAt, 0).Format(time.RFC822) prints no seconds: the minute
\* of the expiry, or "N/A" (-1) when ExpiresAt is not positive
ExpiryInfo(tok) == IF tok.expires_at > 0 THEN tok.expires_at \div 60 ELSE -1

\* the body handleStatus sends with its 200
StatusReply(fileStatus, isTokenValid, expiryInfo, hasRefreshToken) ==
    [status |-> 200, kind |-> "status", acts |-> <<>>,
     file_status |-> fileStatus, token_status |-> isTokenValid,
     token_expires |-> expiryInfo, refresh_token |-> hasRefreshToken]

\* handleStatus is entered: os.Stat of the data file
HandleStatus(p) ==
    /\ pc[p] = "done"
    /\ req' = [req EXCEPT ![p] = [kind |-> "status", refresh |-> FALSE]]
    /\ resp' = [resp EXCEPT ![p] = <<>>]
    /\ loc' = [loc EXCEPT ![p].fileStatus = IF dataFile.exists THEN "OK" ELSE "Missing"]
    /\ pc' = [pc EXCEPT ![p] = "hs_lock"]
    /\ UNCHANGED <<now, currentTokens, tokenMutex, tokenFile, dataFile, stravaActivities,
                   sent>>

\* tokenMutex.Lock() and the reads of AccessToken and ExpiresAt under it
StatusLock(p) ==
    /\ pc[p] = "hs_lock"
    /\ tokenMutex = 0
    /\ tokenMutex' = p
    /\ loc' = [loc EXCEPT ![p].isTokenValid = IsTokenValid(now, currentTokens),
                          ![p].expiryInfo = ExpiryInfo(currentTokens)]
    /\ Goto(p, "hs_unlock")
    /\ UNCHANGED <<now, currentTokens, tokenFile, dataFile, stravaActivities, sent, resp>>

\* tokenMutex.Unlock()
StatusUnlock(p) ==
    /\ pc[p] = "hs_unlock"
    /\ tokenMutex' = 0
    /\ Goto(p, "hs_reply")
    /\ UNCHANGED <<now, currentTokens, tokenFile, dataFile, stravaActivities, loc, sent,
                   resp>>

\* c.JSON(200, ...): the body is built after the Unlock, and
\* currentTokens.RefreshToken is read while building it
SendStatus(p) ==
    /\ pc[p] = "hs_reply"
    /\ Write(p, StatusReply(loc[p].fileStatus, loc[p].isTokenValid, loc[p].expiryInfo,
                            currentTokens.refresh_token # ""))
    /\ Return(p)
    /\ UNCHANGED <<now, currentTokens, tokenMutex, tokenFile, dataFile, stravaActivities>>

\* the status endpoint
StatusStep(p) ==
    \/ HandleStatus(p)
    \/ StatusLock(p)
    \/ StatusUnlock(p)
    \/ SendStatus(p)

(* --------------------------------------------------------- /api/activities *)
\* handleGetActivities is entered with ?refresh=true or without
HandleGetActivities(p, refresh) ==
    /\ pc[p] = "done"
    /\ req' = [req EXCEPT ![p] = [kind |-> "activities", refresh |-> refresh]]
    /\ resp' = [resp EXCEPT ![p] = <<>>]
    /\ pc' = [pc EXCEPT ![p] = "evt_lock"]
    /\ UNCHANGED <<now, currentTokens, tokenMutex, tokenFile, dataFile, stravaActivities,
                   loc, sent>>

\* fileExist && !shouldRefresh
UseLocalFileMut(fileExist, shouldRefresh) == fileExist /\ shouldRefresh
UseLocalFile(fileExist, shouldRefresh) == fileExist /\ ~shouldRefresh

\* after ensureValidToken: 401 on error, else os.Stat and the choice between
\* the local file and a fetch
AfterToken(p) ==
    /\ pc[p] = "ga_token"
    /\ req[p].kind = "activities"
    /\ IF loc[p].err # ""
       THEN /\ Write(p, ErrorReply(401, "token_invalid"))
            /\ Return(p)
       ELSE IF UseLocalFile(dataFile.exists, req[p].refresh)
       THEN /\ Goto(p, "ga_read")
            /\ UNCHANGED <<resp, loc, sent>>
       ELSE /\ Goto(p, "fs_page")
            /\ loc' = [loc EXCEPT ![p].page = 1]
            /\ UNCHANGED <<resp, sent>>
    /\ UNCHANGED <<now, currentTokens, tokenMutex, tokenFile, dataFile, stravaActivities>>

\* os.ReadFile and json.Unmarshal of the local file: 200 with its content, or
\* a 500 for an unparseable file, after which the handler goes on to fetch
ReadLocalFile(p) ==
    /\ pc[p] = "ga_read"
    /\ IF ~dataFile.exists
       THEN /\ Write(p, ErrorReply(500, "read_failed"))
            /\ Return(p)
       ELSE IF Parseable(dataFile.content)
       THEN /\ Write(p, Reply(200, "activities", Parse(dataFile.content)))
            /\ Return(p)
       ELSE /\ Write(p, ErrorReply(500, "parse_failed"))
            /\ Goto(p, "fs_page")
            /\ loc' = [loc EXCEPT ![p].page = 1]
            /\ UNCHANGED sent
    /\ UNCHANGED <<now, currentTokens, tokenMutex, tokenFile, dataFile, stravaActivities>>

(* ------------------------------------------------------------ bulk fetch *)
\* the upstream's answer to ?per_page=perPage&page=n
PageOf(acts, n) ==
    SubSeq(acts, (n - 1) * perPage + 1,
           IF n * perPage < Len(acts) THEN n * perPage ELSE Len(acts))

\* the loop's exit test: len(currentActivities) < perPage
IsLastPageMut(n) == n <= perPage
IsLastPage(n) == n < perPage

\* one turn of the loop that gets its page: append, then break or page++
FetchPage(p) ==
    /\ pc[p] = "fs_page"
    /\ Send(p, "activities", loc[p].page)
    /\ LET currentActivities == PageOf(stravaActivities, loc[p].page)
           all == loc[p].allActivities \o currentActivities
       IN  IF IsLastPage(Len(currentActivities))
           THEN /\ loc' = [loc EXCEPT ![p].allActivities = all]
                /\ Goto(p, "fs_create")
           ELSE /\ loc' = [loc EXCEPT ![p].allActivities = all, ![p].page = @ + 1]
                /\ UNCHANGED <<pc, req>>
    /\ UNCHANGED <<now, currentTokens, tokenMutex, tokenFile, dataFile, stravaActivities,
                   resp>>

\* one turn of the loop whose request fails: the fetch returns the error and
\* the handler answers 500
FetchPageFailedMut(p, kind) ==
    /\ pc[p] = "fs_page"
    /\ Write(p, ErrorReply(500, "page_failed"))
    /\ Return(p)
    /\ dataFile' = FileOf(Encode(loc[p].allActivities))
    /\ UNCHANGED <<now, currentTokens, tokenMutex, tokenFile, stravaActivities>>
FetchPageFailed(p, kind) ==
    /\ pc[p] = "fs_page"
    /\ Write(p, ErrorReply(500, "page_failed"))
    /\ Return(p)
    /\ UNCHANGED <<now, currentTokens, tokenMutex, tokenFile, dataFile, stravaActivities>>

\* os.MkdirAll and os.Create: the file is created, or truncated if it exists
CreateDataFile(p, ok) ==
    /\ pc[p] = "fs_create"
    /\ IF ok
       THEN /\ dataFile' = FileOf(<<>>)
            /\ Goto(p, "fs_encode")
            /\ UNCHANGED <<resp, loc, sent>>
       ELSE /\ Write(p, ErrorReply(500, "create_failed"))
            /\ Return(p)
            /\ UNCHANGED dataFile
    /\ UNCHANGED <<now, currentTokens, tokenMutex, tokenFile, stravaActivities>>

\* encoder.Encode(allActivities): one write at the start of the open file
EncodeDataFile(p, ok) ==
    /\ pc[p] = "fs_encode"
    /\ IF ok
       THEN /\ dataFile' = FileOf(Overlay(dataFile.content, Encode(loc[p].allActivities)))
            /\ Goto(p, "ga_reread")
            /\ UNCHANGED <<resp, loc, sent>>
       ELSE /\ Write(p, ErrorReply(500, "write_failed"))
            /\ Return(p)
            /\ UNCHANGED dataFile
    /\ UNCHANGED <<now, currentTokens, tokenMutex, tokenFile, stravaActivities>>

\* handleGetActivities, step 3: read the file again, Unmarshal with the error
\* ignored (the slice stays nil), and answer 200
RereadAndReply(p) ==
    /\ pc[p] = "ga_reread"
    /\ Write(p, IF ~dataFile.exists THEN ErrorReply(500, "reread_failed")
                ELSE Reply(200, "activities",
                           IF Parseable(dataFile.content) THEN Parse(dataFile.content)
                           ELSE <<>>))
    /\ Return(p)
    /\ UNCHANGED <<now, currentTokens, tokenMutex, tokenFile, dataFile, stravaActivities>>

(* ----------------------------------------------------- aggregation engine *)
\* the calendar days the model knows, as Format("2006-01-02") prints them; the
\* first one is a Monday
DayKeys ==
    <<"2024-02-26", "2024-02-27", "2024-02-28", "2024-02-29", "2024-03-01",
      "2024-03-02", "2024-03-03", "2024-03-04", "2024-03-05", "2024-03-06",
      "2024-03-07", "2024-03-08", "2024-03-09", "2024-03-10">>

\* the same days as Format("2006-01") prints them
MonthKeys ==
    <<"2024-02", "2024-02", "2024-02", "2024-02", "2024-03",
      "2024-03", "2024-03", "2024-03", "2024-03", "2024-03",
      "2024-03", "2024-03", "2024-03", "2024-03">>

Days == 1..Len(DayKeys)

\* 24 * time.Hour, in seconds
SecondsPerDay == 86400

\* the day an instant falls on: Truncate(24 * time.Hour) of a UTC time
DayOf(t) == (t \div SecondsPerDay) + 1

\* time.Weekday of a day: Sunday is 0, Monday is 1
Weekday(d) == d % 7

\* the activity objects a cache file may hold, by id.  start_date and
\* start_date_local are the day their timestamp parses to, 0 when the string
\* is not RFC3339; hasType is FALSE when the object has no "type" string;
\* distance is in metres and moving_time in seconds
ActivityOf ==
    [x0 |-> [type |-> "Run", hasType |-> TRUE, distance |-> 10000, moving_time |-> 3000,
             start_date |-> 5, start_date_local |-> 5],
     x1 |-> [type |-> "Run", hasType |-> TRUE, distance |-> 4800, moving_time |-> 1000,
             start_date |-> 4, start_date_local |-> 4],
     x2 |-> [type |-> "Ride", hasType |-> TRUE, distance |-> 20000, moving_time |-> 3600,
             start_date |-> 5, start_date_local |-> 5],
     x3 |-> [type |-> "Swim", hasType |-> TRUE, distance |-> 1000, moving_time |-> 0,
             start_date |-> 5, start_date_local |-> 5],
     x4 |-> [type |-> "Run", hasType |-> TRUE, distance |-> 3800, moving_time |-> 1000,
             start_date |-> 0, start_date_local |-> 6],
     x5 |-> [type |-> "Run", hasType |-> TRUE, distance |-> 2999, moving_time |-> 1000,
             start_date |-> 6, start_date_local |-> 0],
     x6 |-> [type |-> "", hasType |-> FALSE, distance |-> 500, moving_time |-> 100,
             start_date |-> 5, start_date_local |-> 5],
     x7 |-> [type |-> "Yoga", hasType |-> TRUE, distance |-> 3000, moving_time |-> 1000,
             start_date |-> 4, start_date_local |-> 5]]

ActivityIds == DOMAIN ActivityOf

\* the type strings considered: the seven the source lists and others
ActivityTypes ==
    {"Run", "Walk", "Hike", "TrailRun", "Ride", "VirtualRide", "Handcycle",
     "Swim", "Yoga", "EBikeRide", "run", ""}

\* classifyActivity
classifyActivityMut(activityType) ==
    CASE activityType \in {"Run", "Walk", "Hike", "TrailRun"} -> "RunWalkHike"
      [] activityType \in {"Ride", "VirtualRide", "Handcycle"} -> "Bike"
      [] activityType = "Yoga" -> "Rest"
      [] OTHER -> "Other"
classifyActivity(activityType) ==
    CASE activityType \in {"Run", "Walk", "Hike", "TrailRun"} -> "RunWalkHike"
      [] activityType \in {"Ride", "VirtualRide", "Handcycle"} -> "Bike"
      [] OTHER -> "Other"

\* zero value of PaceStat
ZeroPaceStat == [Red |-> 0, Orange |-> 0, Yellow |-> 0, Green |-> 0]

\* getPaceZone(distanceM / movingTimeS): the speed is kept as the two numbers
\* it is the quotient of, and compared with 4.8, 3.8 and 3.0 exactly
getPaceZoneMut(distanceM, movingTimeS) ==
    IF distanceM * 10 > 48 * movingTimeS THEN "Red"
    ELSE IF distanceM * 10 > 38 * movingTimeS THEN "Orange"
    ELSE IF distanceM * 10 > 30 * movingTimeS THEN "Yellow"
    ELSE "Green"
getPaceZone(distanceM, movingTimeS) ==
    IF distanceM * 10 >= 48 * movingTimeS THEN "Red"
    ELSE IF distanceM * 10 >= 38 * movingTimeS THEN "Orange"
    ELSE IF distanceM * 10 >= 30 * movingTimeS THEN "Yellow"
    ELSE "Green"

\* calculatePaceStats; a zone's value v stands for v / 1000 km
calculatePaceStats(activity) ==
    IF activity.type # "Run" THEN ZeroPaceStat
    ELSE IF activity.distance <= 0 \/ activity.moving_time <= 0 THEN ZeroPaceStat
    ELSE [ZeroPaceStat EXCEPT ![getPaceZone(activity.distance, activity.moving_time)] =
              activity.distance]

\* loadLocalActivities: nil when the file cannot be read or parsed
loadLocalActivities(file) ==
    IF file.exists /\ Parseable(file.content) THEN Parse(file.content) ELSE <<>>

\* readLocalActivities keeps an object only with a start_date string, a type
\* string, and positive distance and moving_time
IsMinimalActivity(a) ==
    a.hasType /\ a.distance > 0 /\ a.moving_time > 0

\* readLocalActivities: the error (or ""), and the activities kept
readLocalActivities(file) ==
    IF ~file.exists THEN [err |-> "not_found", activities |-> <<>>]
    ELSE IF ~Parseable(file.content) THEN [err |-> "parse_failed", activities |-> <<>>]
    ELSE LET kept(id) == IsMinimalActivity(ActivityOf[id])
             minimalActivities == SelectSeq(Parse(file.content), kept)
         IN  IF Len(minimalActivities) = 0
             THEN [err |-> "no_valid_activities", activities |-> <<>>]
             ELSE [err |-> "", activities |-> minimalActivities]

\* a map with no keys
EmptyMap == [k \in {} |-> 0]

\* the orders in which a range over a map may visit the keys S
Orders(S) ==
    {o \in [1..Cardinality(S) -> S] : \A i, j \in 1..Cardinality(S) : o[i] = o[j] => i = j}

\* the MonthlySportStats field a category adds to; a category that matches no
\* case of the switch adds to none
DistanceField(category) ==
    CASE category = "RunWalkHike" -> "run_walk_hike"
      [] category = "Bike" -> "bike"
      [] category = "Other" -> "other"
      [] OTHER -> "none"

NewSportStats(monthYear) ==
    [month_year |-> monthYear, run_walk_hike |-> 0, bike |-> 0, other |-> 0]

\* calculateMonthlyDistanceStats: the loop over the activities
RECURSIVE DistanceLoop(_, _)
DistanceLoop(activities, statsMap) ==
    IF activities = <<>> THEN statsMap
    ELSE LET activity == ActivityOf[Head(activities)]
         IN  IF activity.start_date = 0
             THEN DistanceLoop(Tail(activities), statsMap)
             ELSE LET monthYear == MonthKeys[activity.start_date]
                      field == DistanceField(classifyActivity(activity.type))
                      stat == IF monthYear \in DOMAIN statsMap THEN statsMap[monthYear]
                              ELSE NewSportStats(monthYear)
                      added == IF field = "none" THEN stat
                               ELSE [stat EXCEPT ![field] = @ + activity.distance]
                  IN  DistanceLoop(Tail(activities), (monthYear :> added) @@ statsMap)

\* the statsMap calculateMonthlyDistanceStats builds from the file
DistanceStatsMapMut(file) ==
    LET done == {p \in Procs : /\ resp[p] # <<>>
                               /\ resp[p][1].kind = "stats"
                               /\ resp[p][1].status = 200}
        last == resp[CHOOSE p \in done : TRUE][1].acts
        kept == IF done = {} THEN EmptyMap
                ELSE [m \in {last[i].month_year : i \in DOMAIN last} |->
                         last[CHOOSE i \in DOMAIN last : last[i].month_year = m]]
    IN  DistanceLoop(readLocalActivities(file).activities, kept)
DistanceStatsMap(file) == DistanceLoop(readLocalActivities(file).activities, EmptyMap)

\* calculateMonthlyDistanceStats, the final range visiting the map in order
calculateMonthlyDistanceStats(file, order) ==
    IF readLocalActivities(file).err # ""
    THEN [err |-> readLocalActivities(file).err, stats |-> <<>>]
    ELSE [err |-> "", stats |-> [i \in 1..Len(order) |-> DistanceStatsMap(file)[order[i]]]]

\* a quotient of two float64, kept as its two terms; zero is the zero value
ZeroPace == [num |-> 0, den |-> 1]

\* if distance > 0 { pace = time / distance }
PaceOfMut(time, distance) == [num |-> time, den |-> distance]
PaceOf(time, distance) ==
    IF distance > 0 THEN [num |-> time, den |-> distance] ELSE ZeroPace

NewPaceAcc(monthYear) ==
    [month_year |-> monthYear,
     RunWalkHikeTime |-> 0, RunWalkHikeDistance |-> 0,
     BikeTime |-> 0, BikeDistance |-> 0,
     OtherTime |-> 0, OtherDistance |-> 0]

\* calculateMonthlyPaceStats: the loop over the activities
RECURSIVE PaceLoop(_, _)
PaceLoop(activities, paceMap) ==
    IF activities = <<>> THEN paceMap
    ELSE LET activity == ActivityOf[Head(activities)]
         IN  IF activity.start_date = 0
             THEN PaceLoop(Tail(activities), paceMap)
             ELSE LET monthYear == MonthKeys[activity.start_date]
                      category == classifyActivity(activity.type)
                      stat == IF monthYear \in DOMAIN paceMap THEN paceMap[monthYear]
                              ELSE NewPaceAcc(monthYear)
                      added ==
                          CASE category = "RunWalkHike" ->
                                 [stat EXCEPT !.RunWalkHikeDistance = @ + activity.distance,
                                              !.RunWalkHikeTime = @ + activity.moving_time]
                            [] category = "Bike" ->
                                 [stat EXCEPT !.BikeDistance = @ + activity.distance,
                                              !.BikeTime = @ + activity.moving_time]
                            [] category = "Other" ->
                                 [stat EXCEPT !.OtherDistance = @ + activity.distance,
                                              !.OtherTime = @ + activity.moving_time]
                            [] OTHER -> stat
                  IN  PaceLoop(Tail(activities), (monthYear :> added) @@ paceMap)

PaceStatsMap(file) == PaceLoop(readLocalActivities(file).activities, EmptyMap)

\* what of a MonthlyPaceStats reaches the JSON output: the accumulators are
\* tagged json:"-"
PaceRecord(stat) ==
    [month_year |-> stat.month_year,
     run_walk_hike_pace |-> PaceOf(stat.RunWalkHikeTime, stat.RunWalkHikeDistance),
     bike_pace |-> PaceOf(stat.BikeTime, stat.BikeDistance),
     other_pace |-> PaceOf(stat.OtherTime, stat.OtherDistance)]

\* calculateMonthlyPaceStats, the final range visiting the map in order
calculateMonthlyPaceStats(file, order) ==
    IF readLocalActivities(file).err # ""
    THEN [err |-> readLocalActivities(file).err, stats |-> <<>>]
    ELSE [err |-> "", stats |-> [i \in 1..Len(order) |-> PaceRecord(PaceStatsMap(file)[order[i]])]]

\* handleGetWeeklyPaceStats: the loop over the activities, adding to the
\* days of weeklyData (keyed by date string)
RECURSIVE WeeklyLoop(_, _, _, _)
WeeklyLoop(activities, weeklyData, startDate, endDate) ==
    IF activities = <<>> THEN weeklyData
    ELSE LET activity == ActivityOf[Head(activities)]
             activityDate == activity.start_date_local
         IN  IF activityDate = 0
             THEN WeeklyLoop(Tail(activities), weeklyData, startDate, endDate)
             ELSE IF activityDate >= startDate /\ activityDate < endDate + 1
             THEN LET dateStr == DayKeys[activityDate]
                      paceStats == calculatePaceStats(activity)
                      old == IF dateStr \in DOMAIN weeklyData THEN weeklyData[dateStr]
                             ELSE ZeroPaceStat
                      currentDayStats ==
                          [Red |-> old.Red + paceStats.Red,
                           Orange |-> old.Orange + paceStats.Orange,
                           Yellow |-> old.Yellow + paceStats.Yellow,
                           Green |-> old.Green + paceStats.Green]
                  IN  WeeklyLoop(Tail(activities), (dateStr :> currentDayStats) @@ weeklyData,
                                 startDate, endDate)
             ELSE WeeklyLoop(Tail(activities), weeklyData, startDate, endDate)

\* the zero-filled map of the days from startDate to endDate
ZeroFilledMut(startDate, endDate) ==
    [k \in {DayKeys[d] : d \in startDate..(endDate - 1)} |-> ZeroPaceStat]
ZeroFilled(startDate, endDate) ==
    [k \in {DayKeys[d] : d \in startDate..endDate} |-> ZeroPaceStat]

\* the default week: offset := int(time.Monday - now.Weekday()), -6 if positive
WeekOffsetMut(weekday) == 1 - weekday
WeekOffset(weekday) ==
    IF 1 - weekday > 0 THEN 0 - 6 ELSE 1 - weekday

DefaultStart(t) == DayOf(t) + WeekOffset(Weekday(DayOf(t)))

\* the weekly map for a range
WeeklyData(file, startDate, endDate) ==
    WeeklyLoop(loadLocalActivities(file), ZeroFilled(startDate, endDate), startDate, endDate)

\* handleGetDistanceStats / handleGetPaceStats are entered: both start with
\* ensureValidToken
HandleGetDistanceStats(p) ==
    /\ pc[p] = "done"
    /\ req' = [req EXCEPT ![p] = [kind |-> "stats", refresh |-> FALSE]]
    /\ resp' = [resp EXCEPT ![p] = <<>>]
    /\ pc' = [pc EXCEPT ![p] = "evt_lock"]
    /\ UNCHANGED <<now, currentTokens, tokenMutex, tokenFile, dataFile, stravaActivities,
                   loc, sent>>

HandleGetPaceStats(p) ==
    /\ pc[p] = "done"
    /\ req' = [req EXCEPT ![p] = [kind |-> "pace", refresh |-> FALSE]]
    /\ resp' = [resp EXCEPT ![p] = <<>>]
    /\ pc' = [pc EXCEPT ![p] = "evt_lock"]
    /\ UNCHANGED <<now, currentTokens, tokenMutex, tokenFile, dataFile, stravaActivities,
                   loc, sent>>

\* handleGetDistanceStats after ensureValidToken: 401, or the aggregate (500
\* when it returns an error)
DistanceStatsMut(p, order) ==
    /\ pc[p] = "ga_token"
    /\ req[p].kind = "stats"
    /\ Write(p, Reply(200, "stats", calculateMonthlyDistanceStats(dataFile, order).stats))
    /\ Return(p)
    /\ dataFile' = IF dataFile.exists THEN dataFile ELSE FileOf(Encode(<<>>))
    /\ UNCHANGED <<now, currentTokens, tokenMutex, tokenFile, stravaActivities>>
DistanceStats(p, order) ==
    /\ pc[p] = "ga_token"
    /\ req[p].kind = "stats"
    /\ Write(p, IF loc[p].err # "" THEN ErrorReply(401, "token_invalid")
                ELSE IF calculateMonthlyDistanceStats(dataFile, order).err # ""
                THEN ErrorReply(500, "stats_failed")
                ELSE Reply(200, "stats", calculateMonthlyDistanceStats(dataFile, order).stats))
    /\ Return(p)
    /\ UNCHANGED <<now, currentTokens, tokenMutex, tokenFile, dataFile, stravaActivities>>

\* handleGetPaceStats after ensureValidToken
PaceStats(p, order) ==
    /\ pc[p] = "ga_token"
    /\ req[p].kind = "pace"
    /\ Write(p, IF loc[p].err # "" THEN ErrorReply(401, "token_invalid")
                ELSE IF calculateMonthlyPaceStats(dataFile, order).err # ""
                THEN ErrorReply(500, "pace_failed")
                ELSE Reply(200, "pace", calculateMonthlyPaceStats(dataFile, order).stats))
    /\ Return(p)
    /\ UNCHANGED <<now, currentTokens, tokenMutex, tokenFile, dataFile, stravaActivities>>

\* the startDate / endDate query parameters: absent, not YYYY-MM-DD, or a day
NoQuery == [kind |-> "none", day |-> 0]
BadQuery == [kind |-> "bad", day |-> 0]
QueryDays == {4, 6}
QueryValues == {NoQuery, BadQuery} \cup {[kind |-> "date", day |-> d] : d \in QueryDays}

\* handleGetWeeklyPaceStats
HandleGetWeeklyPaceStats(p, startQuery, endQuery) ==
    /\ pc[p] = "done"
    /\ resp' = [resp EXCEPT ![p] =
          IF startQuery.kind # "none" /\ endQuery.kind # "none"
          THEN IF startQuery.kind = "bad" THEN <<ErrorReply(400, "invalid_start")>>
               ELSE IF endQuery.kind = "bad" THEN <<ErrorReply(400, "invalid_end")>>
               ELSE <<Reply(200, "weekly", WeeklyData(dataFile, startQuery.day, endQuery.day))>>
          ELSE <<Reply(200, "weekly",
                       WeeklyData(dataFile, DefaultStart(now), DefaultStart(now) + 6))>>]
    /\ req' = [req EXCEPT ![p] = [kind |-> "weekly", refresh |-> FALSE,
                                  startDate |-> startQuery, endDate |-> endQuery]]
    /\ UNCHANGED <<now, currentTokens, tokenMutex, tokenFile, dataFile, stravaActivities,
                   pc, loc, sent>>

\* the aggregate endpoints
AggregateStep(p) ==
    \/ HandleGetDistanceStats(p)
    \/ HandleGetPaceStats(p)
    \/ \E order \in Orders(DOMAIN DistanceStatsMap(dataFile)) : DistanceStats(p, order)
    \/ \E order \in Orders(DOMAIN PaceStatsMap(dataFile)) : PaceStats(p, order)
    \/ \E startQuery, endQuery \in QueryValues : HandleGetWeeklyPaceStats(p, startQuery, endQuery)

(* ---------------------------------------------------------- specification *)
\* one step of the goroutine p
ProcStep(p) ==
    \/ \E refresh \in BOOLEAN : HandleGetActivities(p, refresh)
    \/ \E code \in {"", "c1"}, denied \in BOOLEAN : HandleStravaCallback(p, code, denied)
    \/ EnsureValidToken(p)
    \/ RefreshAccessToken(p)
    \/ \E kind \in FailKinds : RefreshFailed(p, kind)
    \/ \E r \in TokenResponses(now) : RefreshAccepted(p, r)
    \/ \E ok \in BOOLEAN : SaveToken(p, ok)
    \/ EnsureReturnError(p)
    \/ \E kind \in FailKinds : CallbackFailed(p, kind)
    \/ \E r \in TokenResponses(now) : CallbackAccepted(p, r)
    \/ AfterToken(p)
    \/ ReadLocalFile(p)
    \/ FetchPage(p)
    \/ \E kind \in FailKinds : FetchPageFailed(p, kind)
    \/ \E ok \in BOOLEAN : CreateDataFile(p, ok)
    \/ \E ok \in BOOLEAN : EncodeDataFile(p, ok)
    \/ RereadAndReply(p)

Next == Tick \/ \E p \in Procs : (ProcStep(p) \/ AggregateStep(p) \/ StatusStep(p))

Spec == Init /\ [][Next]_vars

\* the server taking one request at a time: every request is served by the
\* goroutine 1, to its end, before the next one arrives
SeqNext == Tick \/ ProcStep(1)

SeqSpec == Init /\ [][SeqNext]_vars

\* a goroutine that can run does run
FairSeqSpec == SeqSpec /\ WF_vars(ProcStep(1))

\* client.Do gives up after the client's Timeout when the upstream stays silent
ClientTimeout(p) == FetchPageFailed(p, "network")

\* the steps the process takes without an answer from the upstream; the
\* http.PostForm calls have no timeout and only end with an answer
OwnStep(p) ==
    \/ EnsureValidToken(p)
    \/ RefreshAccessToken(p)
    \/ \E ok \in BOOLEAN : SaveToken(p, ok)
    \/ EnsureReturnError(p)
    \/ AfterToken(p)
    \/ ReadLocalFile(p)
    \/ ClientTimeout(p)
    \/ \E ok \in BOOLEAN : CreateDataFile(p, ok)
    \/ \E ok \in BOOLEAN : EncodeDataFile(p, ok)
    \/ RereadAndReply(p)

\* an upstream that may never answer: only the process's own steps are sure
\* to happen
SilentSpec == SeqSpec /\ WF_vars(OwnStep(1))

\* the cache on its own: a token loaded at startup that stays valid (or none),
\* and a cache file that is absent, cut short by a crash, or an older snapshot
ValidToken ==
    [access_token |-> "a1", refresh_token |-> "r1", expires_at |-> tokenTTLMargin]

OldSnapshot == <<"x0">>

CacheInit ==
    /\ now = 0
    /\ currentTokens \in {NoToken, ValidToken}
    /\ tokenMutex = 0
    /\ tokenFile = [exists |-> currentTokens # NoToken, data |-> currentTokens]
    /\ dataFile \in {NoFile, FileOf(CrashedContent), FileOf(Encode(OldSnapshot))}
    /\ stravaActivities \in Accounts
    /\ pc = [p \in Procs |-> "done"]
    /\ req = [p \in Procs |-> NoRequest]
    /\ loc = [p \in Procs |-> ZeroLocals]
    /\ sent = [p \in Procs |-> <<>>]
    /\ resp = [p \in Procs |-> <<>>]

CacheStep(p) ==
    \/ \E refresh \in BOOLEAN : HandleGetActivities(p, refresh)
    \/ EnsureValidToken(p)
    \/ AfterToken(p)
    \/ ReadLocalFile(p)
    \/ FetchPage(p)
    \/ \E kind \in FailKinds : FetchPageFailed(p, kind)
    \/ \E ok \in BOOLEAN : CreateDataFile(p, ok)
    \/ \E ok \in BOOLEAN : EncodeDataFile(p, ok)
    \/ RereadAndReply(p)

CacheNext == \E p \in Procs : CacheStep(p)

CacheSpec == CacheInit /\ [][CacheNext]_vars

\* the aggregates on their own: the server at some instant (the first or the
\* last second) of each day of a week, with
\* no token, a token still good or one inside the margin, and a cache file
\* that is absent, cut short, [], or what a fetch wrote
AggNows ==
    {(d - 1) * SecondsPerDay + (IF d % 2 = 0 THEN 0 ELSE SecondsPerDay - 1) : d \in 5..11}

CacheContents == UNION {[1..n -> ActivityIds] : n \in 0..MaxCacheLen}

EmptyArray == <<"[", "]">>

AggInit ==
    /\ now \in AggNows
    /\ currentTokens \in
          {NoToken,
           [access_token |-> "a1", refresh_token |-> "r1", expires_at |-> now + tokenTTLMargin],
           [access_token |-> "a1", refresh_token |-> "r1", expires_at |-> now + 30]}
    /\ tokenMutex = 0
    /\ tokenFile = [exists |-> currentTokens # NoToken, data |-> currentTokens]
    /\ dataFile \in {NoFile, FileOf(CrashedContent), FileOf(EmptyArray)}
                      \cup {FileOf(Encode(c)) : c \in CacheContents}
    /\ stravaActivities = <<>>
    /\ pc = [p \in Procs |-> "done"]
    /\ req = [p \in Procs |-> NoRequest]
    /\ loc = [p \in Procs |-> ZeroLocals]
    /\ sent = [p \in Procs |-> <<>>]
    /\ resp = [p \in Procs |-> <<>>]

AggStep(p) ==
    \/ AggregateStep(p)
    \/ EnsureValidToken(p)
    \/ RefreshAccessToken(p)
    \/ \E kind \in FailKinds : RefreshFailed(p, kind)
    \/ \E r \in TokenResponses(now) : RefreshAccepted(p, r)
    \/ EnsureReturnError(p)

AggNext == AggStep(1)

AggSpec == AggInit /\ [][AggNext]_vars

\* an aggregation run twice: two requests, at one instant or one after the
\* other, over a cache file nothing changes
RerunInit ==
    /\ now = 4 * SecondsPerDay
    /\ currentTokens =
          [access_token |-> "a1", refresh_token |-> "r1", expires_at |-> now + tokenTTLMargin]
    /\ tokenMutex = 0
    /\ tokenFile = [exists |-> TRUE, data |-> currentTokens]
    /\ dataFile \in {NoFile, FileOf(CrashedContent), FileOf(EmptyArray)}
                      \cup {FileOf(Encode(c)) : c \in CacheContents}
    /\ stravaActivities = <<>>
    /\ pc = [p \in Procs |-> "done"]
    /\ req = [p \in Procs |-> NoRequest]
    /\ loc = [p \in Procs |-> ZeroLocals]
    /\ sent = [p \in Procs |-> <<>>]
    /\ resp = [p \in Procs |-> <<>>]

RerunStep(p) ==
    \/ HandleGetDistanceStats(p)
    \/ HandleGetPaceStats(p)
    \/ \E order \in Orders(DOMAIN DistanceStatsMap(dataFile)) : DistanceStats(p, order)
    \/ \E order \in Orders(DOMAIN PaceStatsMap(dataFile)) : PaceStats(p, order)
    \/ \E startQuery \in {NoQuery, [kind |-> "date", day |-> 4]} :
          HandleGetWeeklyPaceStats(p, startQuery, [kind |-> "date", day |-> 6])
    \/ EnsureValidToken(p)

RerunNext == RerunStep(1) \/ RerunStep(2)

RerunSpec == RerunInit /\ [][RerunNext]_vars

\* the token record shared by two requests: a server that has no token, one
\* whose token expires exactly tokenTTLMargin from now, one inside the margin
\* and one well before it, serving the status endpoint, the OAuth callback
\* and a token-gated endpoint on two goroutines
BoundaryToken ==
    [access_token |-> "a1", refresh_token |-> "r1", expires_at |-> tokenTTLMargin]

StaleToken ==
    [access_token |-> "a1", refresh_token |-> "r1", expires_at |-> tokenTTLMargin - 30]

FreshToken ==
    [access_token |-> "a1", refresh_token |-> "r1", expires_at |-> tokenTTLMargin + 30]

RaceInit ==
    /\ now = 0
    /\ currentTokens \in {NoToken, BoundaryToken, StaleToken, FreshToken}
    /\ tokenMutex = 0
    /\ tokenFile = [exists |-> currentTokens # NoToken, data |-> currentTokens]
    /\ dataFile = FileOf(Encode(OldSnapshot))
    /\ stravaActivities = <<>>
    /\ pc = [p \in Procs |-> "done"]
    /\ req = [p \in Procs |-> NoRequest]
    /\ loc = [p \in Procs |-> ZeroLocals]
    /\ sent = [p \in Procs |-> <<>>]
    /\ resp = [p \in Procs |-> <<>>]

RaceStep(p) ==
    \/ StatusStep(p)
    \/ HandleGetDistanceStats(p)
    \/ \E order \in Orders(DOMAIN DistanceStatsMap(dataFile)) : DistanceStats(p, order)
    \/ EnsureValidToken(p)
    \/ RefreshAccessToken(p)
    \/ \E kind \in FailKinds : RefreshFailed(p, kind)
    \/ \E r \in TokenResponses(now) : RefreshAccepted(p, r)
    \/ EnsureReturnError(p)
    \/ \E code \in {"", "c1"}, denied \in BOOLEAN : HandleStravaCallback(p, code, denied)
    \/ \E kind \in FailKinds : CallbackFailed(p, kind)
    \/ \E r \in TokenResponses(now) : CallbackAccepted(p, r)
    \/ \E ok \in BOOLEAN : SaveToken(p, ok)

RaceNext == RaceStep(1) \/ RaceStep(2)

RaceSpec == RaceInit /\ [][RaceNext]_vars

\* sync.Mutex hands the lock to a goroutine that keeps waiting for it, and a
\* goroutine that can run does run
FairRaceSpec == RaceSpec /\ SF_vars(RaceStep(1)) /\ SF_vars(RaceStep(2))

(* ----------------------------------------------------------------- claims *)
\* the goroutine p takes this step
Moves(p) == pc'[p] # pc[p] \/ loc'[p] # loc[p]

\* the errors refreshAccessToken returns before it commits anything
RefreshErrors == {"no_refresh_token"} \cup FailKinds

\* the handler has sent a refresh request to the upstream
SentRefresh(p) == \E i \in 1..Len(sent[p]) : sent[p][i].kind = "refresh"

\* the handler has sent a listing request to the upstream
SentListing(p) == \E i \in 1..Len(sent[p]) : sent[p][i].kind = "activities"

\* C1: every call to ensureValidToken eventually returns to its caller (with
\* the new access token once the upstream has accepted the refresh).
C1_EnsureValidTokenReturns ==
    (pc[1] = "evt_lock") ~> (pc[1] = "ga_token")

\* C2: ensureValidToken returns an access token only if now + 60 s was not
\* after expires_at at its check or a refresh exchange was made in the same
\* call; with expires_at 30 s ahead the call goes into refreshAccessToken.
C2_RefreshWithinMargin ==
    [][\A p \in Procs :
        /\ (pc[p] # "ga_token" /\ pc'[p] = "ga_token" /\ loc'[p].err = "")
             => /\ loc'[p].accessToken # ""
                /\ \/ ~(now + 60 > currentTokens.expires_at)
                   \/ SentRefresh(p)
        /\ (pc[p] = "evt_lock" /\ pc'[p] # "evt_lock"
              /\ currentTokens.access_token # ""
              /\ currentTokens.expires_at = now + 30)
             => pc'[p] = "rat_lock"]_vars

\* a token that expires in 30 s has made the call send a refresh request
C2_Witness ==
    \E p \in Procs :
        /\ pc[p] = "rat_wait"
        /\ SentRefresh(p)
        /\ currentTokens.expires_at = now + 30

\* C3: with an empty stored access token ensureValidToken fails as
\* unauthenticated, sends nothing to the upstream and leaves the token record
\* in memory and on disk as it is, whatever refresh token is stored.
C3_Unauthenticated ==
    [][\A p \in Procs :
        (pc[p] = "evt_lock" /\ pc'[p] # "evt_lock" /\ currentTokens.access_token = "")
          => /\ pc'[p] = "ga_token"
             /\ loc'[p].err = "unauthenticated"
             /\ loc'[p].accessToken = ""
             /\ sent'[p] = <<>>
             /\ currentTokens' = currentTokens
             /\ tokenFile' = tokenFile]_vars

\* the call has failed as unauthenticated while a refresh token is stored
C3_Witness ==
    \E p \in Procs :
        /\ pc[p] = "ga_token"
        /\ loc[p].err = "unauthenticated"
        /\ currentTokens.access_token = ""
        /\ currentTokens.refresh_token # ""
        /\ sent[p] = <<>>

\* C4: when the refresh exchange fails, every step of the call from the
\* failure on leaves the token record in memory and on disk unchanged, the call
\* yields an error and no access token, and /api/activities answers 401.
C4_RefreshFailure ==
    [][\A p \in Procs :
        (Moves(p) /\ (loc[p].err \in RefreshErrors \/ loc'[p].err \in RefreshErrors))
          => /\ currentTokens' = currentTokens
             /\ tokenFile' = tokenFile
             /\ loc'[p].accessToken = ""
             /\ pc[p] \in {"rat_lock", "rat_wait"} => pc'[p] = "evt_relock"
             /\ pc[p] = "evt_relock" => (pc'[p] = "ga_token" /\ loc'[p].err = loc[p].err)
             /\ pc[p] = "ga_token"
                  => (pc'[p] = "done" /\ resp'[p] = <<ErrorReply(401, "token_invalid")>>)]_vars

\* /api/activities has answered 401 although an access token and a refresh
\* token are stored: the upstream has failed the refresh, and the record is
\* still the one on disk
C4_Witness ==
    /\ pc[1] = "done"
    /\ resp[1] = <<ErrorReply(401, "token_invalid")>>
    /\ currentTokens.access_token # ""
    /\ currentTokens.refresh_token # ""
    /\ tokenFile.exists /\ tokenFile.data = currentTokens

\* C5: once a non-empty refresh token is stored, no code exchange and no
\* refresh makes the stored refresh token empty.
C5_RefreshTokenKept ==
    [][currentTokens.refresh_token # "" => currentTokens'.refresh_token # ""]_vars

\* the listing requests the handler has sent, in the order sent
IsListing(m) == m.kind = "activities"
Listings(p) == SelectSeq(sent[p], IsListing)

\* C6: the bulk fetch asks for the pages 1, 2, 3, ... in order, each once,
\* goes on only after a full page, stops after the first short page (one past
\* the last full page when the account fills its pages exactly), and what it
\* stores is the pages it got, in order.
C6_PagesInOrder ==
    \A p \in Procs :
        LET n == Len(Listings(p))
            total == Len(stravaActivities)
        IN  /\ \A i \in 1..n : Listings(p)[i].page = i
            /\ \A i \in 1..(n - 1) : i * perPage <= total
            /\ pc[p] = "fs_page"
                 => /\ loc[p].page = n + 1
                    /\ n * perPage <= total
                    /\ loc[p].allActivities = SubSeq(stravaActivities, 1, n * perPage)
            /\ pc[p] \in {"fs_create", "fs_encode", "ga_reread"}
                 => /\ n = (total \div perPage) + 1
                    /\ loc[p].allActivities = stravaActivities
            /\ pc[p] = "ga_reread"
                 => /\ dataFile.exists
                    /\ \/ dataFile.content = <<>>
                       \/ /\ Parseable(dataFile.content)
                          /\ Parse(dataFile.content) = stravaActivities

\* an account that fills its pages exactly has been fetched, with one more
\* (empty) page asked for, and stored
C6_Witness ==
    \E p \in Procs :
        /\ pc[p] = "ga_reread"
        /\ Len(stravaActivities) = perPage
        /\ Len(Listings(p)) = 2
        /\ Parseable(dataFile.content)
        /\ Parse(dataFile.content) = stravaActivities

\* C7: no turn of the paging loop touches the cache file, and a turn whose
\* request fails ends the request with a 500.
C7_FailedFetchLeavesCache ==
    [][\A p \in Procs :
        (pc[p] = "fs_page" /\ Moves(p))
          => /\ dataFile' = dataFile
             /\ pc'[p] \in {"fs_page", "fs_create", "done"}
             /\ pc'[p] = "done"
                  => resp'[p][Len(resp'[p])] = ErrorReply(500, "page_failed")]_vars

\* a forced refresh has failed on a page and the older snapshot is still there
C7_Witness ==
    \E p \in Procs :
        /\ pc[p] = "done"
        /\ resp[p] = <<ErrorReply(500, "page_failed")>>
        /\ dataFile = FileOf(Encode(OldSnapshot))

\* C8: a read of the cache never observes anything but a complete snapshot
\* (the leftover of an earlier crash aside), also while a fetch replaces it.
C8_ReadersSeeCompleteSnapshot ==
    [][\A p \in Procs :
        (pc[p] = "ga_read" /\ Moves(p) /\ dataFile.content # CrashedContent)
          => Parseable(dataFile.content)]_vars

\* what C9 says of a step of the handler that finds a parseable cache and no
\* forced refresh: the cache is served as stored, nothing is asked of the
\* upstream's listing, the file is left alone
ServesCache(p) ==
    /\ dataFile' = dataFile
    /\ ~SentListing(p)
    /\ pc'[p] # "fs_page"
    /\ pc[p] = "ga_token" => pc'[p] = "ga_read"
    /\ pc[p] = "ga_read"
         => /\ pc'[p] = "done"
            /\ resp'[p] = <<Reply(200, "activities", Parse(dataFile.content))>>

C10_FreshCollectionReturned ==
    [][\A p \in Procs :
        /\ (pc[p] = "ga_token" /\ Moves(p) /\ loc[p].err = ""
              /\ (req[p].refresh \/ ~dataFile.exists))
             => pc'[p] = "fs_page"
        /\ (pc[p] = "ga_read" /\ Moves(p) /\ dataFile.exists
              /\ ~Parseable(dataFile.content))
             => pc'[p] = "fs_page"
        /\ (pc[p] = "ga_reread" /\ Moves(p))
             => resp'[p] = <<Reply(200, "activities", loc[p].allActivities)>>]_vars

\* the requests of the aggregate endpoints
AggKinds == {"stats", "pace", "weekly"}

\* C11 as stated: serving an aggregate sends nothing to the upstream and
\* leaves the cache file as it is.
C11_AggregatesSendNothing ==
    [][/\ \A p \in Procs : req'[p].kind \in AggKinds => sent'[p] = <<>>
       /\ dataFile' = dataFile]_vars

\* C11 as amended: serving an aggregate sends no listing request to the
\* upstream and leaves the cache file as it is; what it may send is the
\* refresh exchange of ensureValidToken.
C11_AggregatesFetchNothing ==
    [][/\ \A p \in Procs :
            req'[p].kind \in AggKinds
              => \A i \in 1..Len(sent'[p]) : sent'[p][i].kind = "refresh"
       /\ dataFile' = dataFile]_vars

\* /api/stats, with a token inside the margin, has sent the refresh exchange
\* and no listing request, and the cache file holds what it held
C11_Witness ==
    /\ req[1].kind = "stats"
    /\ pc[1] = "rat_wait"
    /\ SentRefresh(1)
    /\ ~SentListing(1)
    /\ dataFile = FileOf(Encode(<<"x0">>))

\* the sum of the values of a function with a finite domain
RECURSIVE SumOf(_)
SumOf(f) ==
    IF DOMAIN f = {} THEN 0
    ELSE LET x == CHOOSE y \in DOMAIN f : TRUE
         IN  f[x] + SumOf([z \in DOMAIN f \ {x} |-> f[z]])

\* the activities in the cache file, by position
Cached(file) == IF file.exists /\ Parseable(file.content) THEN Parse(file.content) ELSE <<>>

\* the 200 response a goroutine has given to a request of this kind, if any
Answered(p, kind) ==
    /\ resp[p] # <<>>
    /\ resp[p][1].kind = kind
    /\ resp[p][1].status = 200

\* C12: the distances of the monthly distance aggregate add up to the
\* distances of all cached activities whose start_date parses, and no month
\* has two records.
C12_DistanceConserved ==
    \A p \in Procs :
        Answered(p, "stats")
          => LET stats == resp[p][1].acts
                 cached == Cached(dataFile)
                 RecordTotal(i) == stats[i].run_walk_hike + stats[i].bike + stats[i].other
                 Dated(i) == IF ActivityOf[cached[i]].start_date # 0
                             THEN ActivityOf[cached[i]].distance ELSE 0
             IN  /\ SumOf([i \in DOMAIN stats |-> RecordTotal(i)]) = SumOf([i \in DOMAIN cached |-> Dated(i)])
                 /\ \A i, j \in DOMAIN stats :
                        stats[i].month_year = stats[j].month_year => i = j

\* C13: with a token, the cache file [] makes /api/stats and /api/pace-stats
\* answer 200 with an empty list.
C13_EmptyCacheEmptyList ==
    [][\A p \in Procs :
        (pc[p] = "ga_token" /\ Moves(p) /\ loc[p].err = ""
           /\ req[p].kind \in {"stats", "pace"} /\ dataFile = FileOf(EmptyArray))
          => /\ Len(resp'[p]) = 1
             /\ resp'[p][1].status = 200
             /\ resp'[p][1].acts = <<>>]_vars

KeysOf(first, last) == {DayKeys[d] : d \in first..last}

\* the weekly request a goroutine has answered gave both dates
GaveRange(p) == req[p].startDate.kind = "date" /\ req[p].endDate.kind = "date"

\* C15: a weekly response for startDate <= endDate has one entry for each day
\* from startDate to endDate and no other, endDate - startDate + 1 in all,
\* whatever the cache holds.
C15_OneEntryPerDay ==
    \A p \in Procs :
        (Answered(p, "weekly") /\ GaveRange(p) /\ req[p].startDate.day <= req[p].endDate.day)
          => /\ DOMAIN resp[p][1].acts = KeysOf(req[p].startDate.day, req[p].endDate.day)
             /\ Cardinality(DOMAIN resp[p][1].acts)
                  = req[p].endDate.day - req[p].startDate.day + 1

\* one day asked for, one entry, with cached runs on the two days after it
C15_Witness ==
    /\ Answered(1, "weekly")
    /\ req[1].startDate = [kind |-> "date", day |-> 4]
    /\ req[1].endDate = [kind |-> "date", day |-> 4]
    /\ Cardinality(DOMAIN resp[1][1].acts) = 1
    /\ dataFile = FileOf(Encode(<<"x4", "x0">>))

\* the zone the claim gives a run of distance d metres in t seconds
ZoneOf(d, t) ==
    IF 10 * d >= 48 * t THEN "Red"
    ELSE IF 10 * d >= 38 * t THEN "Orange"
    ELSE IF 10 * d >= 30 * t THEN "Yellow"
    ELSE "Green"

C17_SummaryPresent ==
    \A p \in Procs :
        Answered(p, "weekly") => "summary" \in DOMAIN resp[p][1].acts

\* C18: without both dates the weekly response covers the seven days from the
\* Monday at or before now.
C18_DefaultWeek ==
    \A p \in Procs :
        (Answered(p, "weekly") /\ (req[p].startDate.kind = "none" \/ req[p].endDate.kind = "none"))
          => \E start \in Days :
                /\ Weekday(start) = 1
                /\ (start - 1) * 86400 <= now
                /\ now < (start + 6) * 86400
                /\ DOMAIN resp[p][1].acts = KeysOf(start, start + 6)

\* on the first Sunday, in its last second, the week is the one that began six
\* days before
C18_Witness ==
    /\ Answered(1, "weekly")
    /\ req[1].startDate = NoQuery
    /\ now = 7 * 86400 - 1
    /\ DOMAIN resp[1][1].acts = KeysOf(1, 7)

\* C19: classifyActivity gives every type string one of the three categories,
\* and Other to every type outside the two lists.
C19_ClassifyTotal ==
    \A t \in ActivityTypes \cup
              {ActivityOf[Cached(dataFile)[i]].type : i \in DOMAIN Cached(dataFile)} :
        /\ classifyActivity(t) \in {"RunWalkHike", "Bike", "Other"}
        /\ t \notin {"Run", "Walk", "Hike", "TrailRun", "Ride", "VirtualRide", "Handcycle"}
             => classifyActivity(t) = "Other"

\* a yoga session has been counted under other
C19_Witness ==
    /\ Answered(1, "stats")
    /\ dataFile = FileOf(Encode(<<"x7">>))
    /\ resp[1][1].acts = <<[month_year |-> "2024-02", run_walk_hike |-> 0, bike |-> 0,
                            other |-> 3000]>>

\* the records of a list
RecordsOf(list) == {list[i] : i \in DOMAIN list}

TokenAccessAt == {"hs_reply", "rat_wait"}

\* C21: a goroutine that is about to read or write the in-memory token record
\* holds the token lock, in handleStatus as in ensureValidToken and
\* refreshAccessToken.
C21_TokenAccessUnderLock ==
    \A p \in Procs : pc[p] \in TokenAccessAt => tokenMutex = p

\* the goroutine has a request to the upstream's token endpoint in flight
InFlight(p) == pc[p] \in {"rat_wait", "cb_wait"}

\* C22: no goroutine holds the token lock while its request to the upstream
\* is in flight; the refresh request is sent with the lock released.
C22_NoLockAcrossNetwork ==
    \A p \in Procs : InFlight(p) => tokenMutex # p

\* C23: when no token operation is in progress, the token record on disk
\* equals the record in memory (a server that never had a token has neither),
\* also after an operation whose file write failed.
C23_DiskEqualsMemory ==
    (\A p \in Procs : pc[p] = "done") => tokenFile.data = currentTokens

WaitsForPage(p, n) == pc[p] = "fs_page" /\ loc[p].page = n

\* C25: every wait for the upstream (refresh POST, code-exchange POST, page
\* GET) ends, with a result or an error, even if the upstream never answers.
C25_UpstreamCallsBounded ==
    /\ \A p \in Procs : (pc[p] = "rat_wait") ~> (pc[p] # "rat_wait")
    /\ \A p \in Procs : (pc[p] = "cb_wait") ~> (pc[p] # "cb_wait")
    /\ \A p \in Procs : \A n \in 1..3 : WaitsForPage(p, n) ~> ~WaitsForPage(p, n)

\* C26: an aggregation endpoint (monthly distance, monthly pace, weekly zones)
\* answers 200 only over a cache file that exists and parses; a missing or
\* unparseable cache gives an error response.
C26_CacheFailureSurfaced ==
    \A p \in Procs : \A kind \in AggKinds :
        Answered(p, kind) => (dataFile.exists /\ Parseable(dataFile.content))

\* C28: an /api/activities request writes at most one response, also when the
\* cache file exists but fails to parse and a fetch follows.
C28_OneResponse ==
    \A p \in Procs : Len(resp[p]) <= 1

\* C29: while the stored access token is empty, no endpoint has answered 200
\* with cached activities or an aggregate of them.
C29_NoDataWithoutToken ==
    currentTokens.access_token = ""
      => \A p \in Procs : \A kind \in AggKinds \cup {"activities"} : ~Answered(p, kind)

\* the places where a goroutine calls tokenMutex.Lock()
LockAt == {"evt_lock", "rat_lock", "st_lock", "evt_relock", "hs_lock"}

\* C27: no goroutine calls Lock on the token lock while it holds it.
C27_NoSelfAcquire ==
    \A p \in Procs : pc[p] \in LockAt => tokenMutex # p

\* C30: the token_status that handleStatus computes is true exactly when
\* ensureValidToken, at the same instant on the same record, would return the
\* stored access token without refreshing.
C30_StatusAgreesWithEnsure ==
    [][\A p \in Procs :
        (pc[p] = "hs_lock" /\ pc'[p] = "hs_unlock")
          => (loc'[p].isTokenValid
                <=> (~NeverAuthenticated(currentTokens)
                       /\ ~NeedsRefresh(now, currentTokens)))]_vars

====
